---- MODULE Spec2Model ----
(***************************************************************************)
(* Model of the warranty-analyzer service                                  *)
(* (website/services/warranty-analyzer/app): the text acquisition of       *)
(* document_processor.py, the reply parser, the analysis call and the date *)
(* computation of warranty_analyzer.py, and the /analyze-warranty endpoint *)
(* of main.py.                                                             *)
(*                                                                         *)
(* JSON values are records [t, n, s]: t is the JSON/Python type, n the     *)
(* number (an int as itself, a float in hundredths), s the string.         *)
(* A model reply is a sequence of lexical tokens: braces, prose, a scalar  *)
(* literal, or a "key": value member of an object.                         *)
(* Document text is a sequence of chunks [ws, n, id]: a run of n           *)
(* characters that is either all whitespace or has none at its ends.       *)
(***************************************************************************)
EXTENDS Integers, Sequences, FiniteSets, TLC

(***************************************************************************)
(* Bounds of the model                                                     *)
(***************************************************************************)
MaxReplyLen == 3

(***************************************************************************)
(* JSON values                                                             *)
(***************************************************************************)
Null == [t |-> "null", n |-> 0, s |-> ""]
IntV(i) == [t |-> "int", n |-> i, s |-> ""]
FloatV(h) == [t |-> "float", n |-> h, s |-> ""]
StrV(x) == [t |-> "str", n |-> 0, s |-> x]
ListV(x) == [t |-> "list", n |-> IF x = "" THEN 0 ELSE 1, s |-> x]
EmptyList == ListV("")
EmptyDict == [t |-> "dict", n |-> 0, s |-> ""]
DateV(d) == [t |-> "date", n |-> d, s |-> ""]

IsNumber(v) == v.t \in {"int", "float"}
Hundredths(v) == IF v.t = "int" THEN 100 * v.n ELSE v.n

ListFields ==
  {"coverage_items", "exclusions", "limitations", "required_docs",
   "critical_dates", "critical_highlights", "warning_highlights",
   "info_highlights"}
NullableFields ==
  {"duration", "duration_months", "claim_procedure", "transferable",
   "extended_options"}
FieldNames ==
  ListFields \cup NullableFields \cup {"summary", "claim_contacts", "confidence_score"}

(***************************************************************************)
(* Reply tokens                                                            *)
(***************************************************************************)
LBrace == [k |-> "lbrace", key |-> "", val |-> Null]
RBrace == [k |-> "rbrace", key |-> "", val |-> Null]
Prose == [k |-> "prose", key |-> "", val |-> Null]
Scalar(v) == [k |-> "scalar", key |-> "", val |-> v]
Pair(key, v) == [k |-> "pair", key |-> key, val |-> v]

ScoreValues ==
  {FloatV(-10), IntV(0), FloatV(100), FloatV(170), Null, StrV("high")}
MonthValues == {IntV(24), IntV(0), IntV(-3), StrV("abc")}
SummaryValues == {StrV("s"), Null}

Tokens ==
  {LBrace, RBrace, Prose, Scalar(IntV(5)), Scalar(Null)}
    \cup {Pair("confidence_score", v) : v \in ScoreValues}
    \cup {Pair("duration_months", v) : v \in MonthValues}
    \cup {Pair("summary", v) : v \in SummaryValues}

SeqsUpTo(S, n) == UNION {[1..m -> S] : m \in 0..n}

(***************************************************************************)
(* warranty_analyzer.py: _parse_analysis_response                          *)
(***************************************************************************)
\* re.search(r"\{.*\}", response_text, re.DOTALL): the leftmost "{" that
\* has a "}" after it, extended greedily to the last "}" of the reply.
BraceStarts(text) ==
  {i \in 1..Len(text) :
     /\ text[i] = LBrace
     /\ \E j \in (i + 1)..Len(text) : text[j] = RBrace}

MinOf(S) == CHOOSE x \in S : \A y \in S : x <= y
MaxOf(S) == CHOOSE x \in S : \A y \in S : y <= x

\* As json_match, with a lazy ".*?" that stops at the first "}".
json_match_Lazy(text) ==
  IF BraceStarts(text) = {}
    THEN [found |-> FALSE, group |-> <<>>]
    ELSE LET first == MinOf(BraceStarts(text))
             last == MinOf({j \in (first + 1)..Len(text) : text[j] = RBrace})
         IN [found |-> TRUE, group |-> SubSeq(text, first, last)]

json_match(text) ==
  IF BraceStarts(text) = {}
    THEN [found |-> FALSE, group |-> <<>>]
    ELSE LET first == MinOf(BraceStarts(text))
             last == MaxOf({j \in 1..Len(text) : text[j] = RBrace})
         IN [found |-> TRUE, group |-> SubSeq(text, first, last)]

json_str(text) ==
  IF json_match(text).found THEN json_match(text).group ELSE text

\* The members of an object literal as a mapping; a repeated key keeps its
\* last value, as json.loads does.
Members(toks) ==
  LET keys == {toks[i].key : i \in 1..Len(toks)}
  IN [key \in keys |->
        toks[MaxOf({i \in 1..Len(toks) : toks[i].key = key})].val]

\* json.loads: an object literal, a lone scalar literal, or JSONDecodeError.
json_loads(toks) ==
  IF /\ Len(toks) >= 2
     /\ toks[1] = LBrace
     /\ toks[Len(toks)] = RBrace
     /\ \A i \in 2..(Len(toks) - 1) : toks[i].k = "pair"
    THEN [ok |-> TRUE, isDict |-> TRUE,
          dict |-> Members(SubSeq(toks, 2, Len(toks) - 1)), scalar |-> Null]
    ELSE IF Len(toks) = 1 /\ toks[1].k = "scalar"
      THEN [ok |-> TRUE, isDict |-> FALSE, dict |-> <<>>, scalar |-> toks[1].val]
      ELSE [ok |-> FALSE, isDict |-> FALSE, dict |-> <<>>, scalar |-> Null]

\* dict.get(key, default)
Get(data, key, default) == IF key \in DOMAIN data THEN data[key] ELSE default

\* As FieldDefault, with data.get("confidence_score") left without a default.
FieldDefault_NoScore(f) ==
  IF f = "summary" THEN StrV("")
  ELSE IF f \in ListFields THEN EmptyList
  ELSE IF f = "claim_contacts" THEN EmptyDict
  ELSE Null

\* As FieldDefault, with data.get of a list field left without a default.
FieldDefault_ListNull(f) ==
  IF f = "summary" THEN StrV("")
  ELSE IF f = "claim_contacts" THEN EmptyDict
  ELSE IF f = "confidence_score" THEN FloatV(50)
  ELSE Null

FieldDefault(f) ==
  IF f = "summary" THEN StrV("")
  ELSE IF f \in ListFields THEN EmptyList
  ELSE IF f = "claim_contacts" THEN EmptyDict
  ELSE IF f = "confidence_score" THEN FloatV(50)
  ELSE Null

\* The "result = {...}" literal of the success branch.
ResultFrom(data) == [f \in FieldNames |-> Get(data, f, FieldDefault(f))]

\* The "minimal valid response" of the JSONDecodeError handler.
MinimalResult ==
  [f \in FieldNames |->
     IF f = "summary" THEN StrV("Failed to analyze warranty contract")
     ELSE IF f \in ListFields THEN EmptyList
     ELSE IF f = "claim_contacts" THEN EmptyDict
     ELSE IF f = "confidence_score" THEN FloatV(10)
     ELSE Null]

NoResult == [f \in FieldNames |-> Null]
Return(r) == [kind |-> "return", exc |-> "", value |-> r]
Raise(e) == [kind |-> "raise", exc |-> e, value |-> NoResult]

\* 0.0 <= score <= 1.0
ScoreInRange(v) == 0 <= Hundredths(v) /\ Hundredths(v) <= 100

\* As ValidateConfidence, checking the upper end of the range only.
ValidateConfidence_UpperOnly(result) ==
  IF ~IsNumber(result["confidence_score"])
    THEN Raise("TypeError")
    ELSE IF Hundredths(result["confidence_score"]) > 100
      THEN Return([result EXCEPT !["confidence_score"] = FloatV(50)])
      ELSE Return(result)

\* As ValidateConfidence, with an out-of-range score degrading the whole
\* result to the minimal one.
ValidateConfidence_Degrade(result) ==
  IF ~IsNumber(result["confidence_score"])
    THEN Raise("TypeError")
    ELSE IF ~ScoreInRange(result["confidence_score"])
      THEN Return([MinimalResult EXCEPT !["confidence_score"] = FloatV(50)])
      ELSE Return(result)

\* "if not (0.0 <= result[...] <= 1.0): result[...] = 0.5"; comparing a
\* float with None or a str raises TypeError, which the handler does not catch.
ValidateConfidence(result) ==
  IF ~IsNumber(result["confidence_score"])
    THEN Raise("TypeError")
    ELSE IF ~ScoreInRange(result["confidence_score"])
      THEN Return([result EXCEPT !["confidence_score"] = FloatV(50)])
      ELSE Return(result)

\* As ParseDecoded, with the JSONDecodeError left to propagate.
ParseDecoded_Propagate(dec) ==
  IF ~dec.ok THEN Raise("JSONDecodeError")
  ELSE IF ~dec.isDict THEN Raise("AttributeError")
  ELSE ValidateConfidence(ResultFrom(dec.dict))

\* data.get on a decoded value that is no dict raises AttributeError, which
\* the "except json.JSONDecodeError" handler does not catch.
ParseDecoded(dec) ==
  IF ~dec.ok THEN Return(MinimalResult)
  ELSE IF ~dec.isDict THEN Raise("AttributeError")
  ELSE ValidateConfidence(ResultFrom(dec.dict))

_parse_analysis_response(response_text) ==
  ParseDecoded(json_loads(json_str(response_text)))

(***************************************************************************)
(* warranty_analyzer.py: extract_warranty_dates                            *)
(***************************************************************************)
\* As extract_warranty_dates, starting from the current time always.
extract_warranty_dates_FromNow(duration_months, purchase_date, now) ==
  IF duration_months = Null
    THEN <<Null, Null>>
    ELSE <<now, DateV(now.n + duration_months.n * 30)>>

\* As extract_warranty_dates, with the start date set before the None check.
extract_warranty_dates_StartFirst(duration_months, purchase_date, now) ==
  LET start_date == IF purchase_date = Null THEN now ELSE purchase_date
  IN IF duration_months = Null
       THEN <<start_date, Null>>
       ELSE <<start_date, DateV(start_date.n + duration_months.n * 30)>>

extract_warranty_dates(duration_months, purchase_date, now) ==
  IF duration_months = Null
    THEN <<Null, Null>>
    ELSE LET start_date == IF purchase_date = Null THEN now ELSE purchase_date
         IN <<start_date, DateV(start_date.n + duration_months.n * 30)>>

(***************************************************************************)
(* models.py: the ClaudeAnalysisResult constructor                         *)
(***************************************************************************)
\* The field types pydantic enforces on the values this model can hold.
FieldTypeOK(f, v) ==
  IF f = "summary" THEN v.t = "str"
  ELSE IF f \in ListFields THEN v.t = "list"
  ELSE IF f = "claim_contacts" THEN v.t = "dict"
  ELSE IF f = "confidence_score" THEN IsNumber(v) /\ ScoreInRange(v)
  ELSE IF f = "duration_months" THEN v.t \in {"int", "null"}
  ELSE IF f = "transferable" THEN v.t \in {"bool", "null"}
  ELSE v.t \in {"str", "null"}

ClaudeAnalysisResult(analysis_data) ==
  IF \A f \in FieldNames : FieldTypeOK(f, analysis_data[f])
    THEN Return(analysis_data)
    ELSE Raise("ValidationError")

(***************************************************************************)
(* Model replies: content blocks with or without a text payload            *)
(***************************************************************************)
TextBlock(x) == [hasText |-> TRUE, text |-> x]
OtherBlock == [hasText |-> FALSE, text |-> <<>>]

\* As BlocksText, keeping the text of the first block that has one.
BlocksText_FirstOnly(content) ==
  LET texts == SelectSeq(content, LAMBDA b : b.hasText)
  IN IF texts = <<>> THEN <<>> ELSE texts[1].text

RECURSIVE BlocksText(_)
\* "for block in message.content: if hasattr(block, 'text'): text += block.text"
BlocksText(content) ==
  IF content = <<>> THEN <<>>
  ELSE (IF Head(content).hasText THEN Head(content).text ELSE <<>>)
         \o BlocksText(Tail(content))

(***************************************************************************)
(* Document text                                                           *)
(***************************************************************************)
Body(n, id) == <<[ws |-> FALSE, n |-> n, id |-> <<"body", id>>]>>
Ws(n) == <<[ws |-> TRUE, n |-> n, id |-> <<"ws", 0>>]>>

RECURSIVE TextLen(_)
TextLen(x) == IF x = <<>> THEN 0 ELSE Head(x).n + TextLen(Tail(x))

RECURSIVE LStrip(_)
LStrip(x) == IF x # <<>> /\ Head(x).ws THEN LStrip(Tail(x)) ELSE x

RECURSIVE RStrip(_)
RStrip(x) ==
  IF x # <<>> /\ x[Len(x)].ws THEN RStrip(SubSeq(x, 1, Len(x) - 1)) ELSE x

\* str.strip()
Strip(x) == RStrip(LStrip(x))

\* f"--- Page {n} ---\n{text}"
PageMarker(n) ==
  <<[ws |-> FALSE, n |-> IF n < 10 THEN 14 ELSE 15, id |-> <<"page", n>>]>> \o Ws(1)
PagePart(n, x) == PageMarker(n) \o x

RECURSIVE Join(_)
\* "\n\n".join(parts)
Join(parts) ==
  IF parts = <<>> THEN <<>>
  ELSE IF Len(parts) = 1 THEN parts[1]
  ELSE parts[1] \o Ws(2) \o Join(Tail(parts))

(***************************************************************************)
(* models.py: DocumentType, OCRResult                                      *)
(***************************************************************************)
PDF == "application/pdf"
PNG == "image/png"
JPEG == "image/jpeg"
JPG == "image/jpg"
DocumentType == {PDF, PNG, JPEG, JPG}

NoAcq == [kind |-> "none", exc |-> "", text |-> <<>>, confidence |-> 0, page_count |-> 0]
AcqRaise(e) == [NoAcq EXCEPT !.kind = "raise", !.exc = e]

\* OCRResult(text=..., confidence=..., page_count=...): confidence has ge=0.0, le=1.0
OCRResult(text, confidence, page_count) ==
  IF 0 <= confidence /\ confidence <= 100
    THEN [kind |-> "return", exc |-> "", text |-> text,
          confidence |-> confidence, page_count |-> page_count]
    ELSE AcqRaise("ValidationError")

(***************************************************************************)
(* document_processor.py                                                   *)
(***************************************************************************)
MinNativeChars == 50
PageLimit == 10

\* As Strategy, with the image branch as the default.
Strategy_ImageDefault(mime) == IF mime = PDF THEN "pdf" ELSE "image"

\* process_document: the strategy chosen for a MIME type
Strategy(mime) ==
  IF mime = PDF THEN "pdf"
  ELSE IF mime \in {PNG, JPEG, JPG} THEN "image"
  ELSE "unsupported"

RECURSIVE NativeParts(_, _)
\* _process_pdf: the page loop; a page whose text is blank adds nothing.
NativeParts(pages, page_num) ==
  IF page_num > Len(pages) THEN <<>>
  ELSE (IF Strip(pages[page_num]) # <<>>
          THEN <<PagePart(page_num, pages[page_num])>>
          ELSE <<>>)
         \o NativeParts(pages, page_num + 1)

NativeText(pages) == Join(NativeParts(pages, 1))

\* As NeedsOCR, measuring the text before trimming.
NeedsOCR_Untrimmed(extracted_text) == TextLen(extracted_text) < MinNativeChars

\* "if len(extracted_text.strip()) < 50"
NeedsOCR(extracted_text) == TextLen(Strip(extracted_text)) < MinNativeChars

NativeConfidence(extracted_text) == IF TextLen(extracted_text) > 100 THEN 95 ELSE 70

NativeResult(extracted_text, page_count) ==
  OCRResult(Strip(extracted_text), NativeConfidence(extracted_text), page_count)

\* As PagesToOCR, with every rasterized page read.
PagesToOCR_All(n) == n

\* _process_scanned_pdf: images[:10]
PagesToOCR(n) == IF n < PageLimit THEN n ELSE PageLimit

ScannedConfidence(extracted_text) == IF TextLen(extracted_text) > 100 THEN 85 ELSE 60

ScannedPageCount(n_images, n_processed) == n_images

ScannedResult(parts, n_images) ==
  OCRResult(Strip(Join(parts)), ScannedConfidence(Join(parts)),
            ScannedPageCount(n_images, Len(parts)))

\* _extract_text_with_claude_vision: the text of the reply, stripped
VisionText(content) == Strip(BlocksText(content))

ImageConfidence(extracted_text) == IF TextLen(extracted_text) > 50 THEN 88 ELSE 65

ImageResult(extracted_text) ==
  OCRResult(Strip(extracted_text), ImageConfidence(extracted_text), 1)

(***************************************************************************)
(* document_processor.py: _optimize_image                                  *)
(***************************************************************************)
\* Image bytes: whether PIL can decode them, and the mode, size and encoding
\* of the picture they hold.
MaxDimension == 2048

ImgReturn(b) == [kind |-> "return", bytes |-> b]
ImgRaise(b) == [kind |-> "raise", bytes |-> b]

Larger(a, b) == IF a > b THEN a ELSE b

\* "if image.mode in ('RGBA', 'LA', 'P')": pasted onto a white RGB background
NeedsFlatten(img) == img.mode \in {"RGBA", "LA", "P"}
Flattened(img) == IF NeedsFlatten(img) THEN [img EXCEPT !.mode = "RGB"] ELSE img

\* "if max(image.size) > max_dimension": int(dim * ratio) for both dimensions
NeedsResize(img) == Larger(img.w, img.h) > MaxDimension
Resized(img) ==
  IF NeedsResize(img)
    THEN [img EXCEPT !.w = (img.w * MaxDimension) \div Larger(img.w, img.h),
                     !.h = (img.h * MaxDimension) \div Larger(img.w, img.h)]
    ELSE img

\* image.save(output, format="PNG", optimize=True)
Encoded(img) == [img EXCEPT !.fmt = "PNG"]

\* Whether an exception is raised inside the try block: Image.open on bytes
\* that are no image, or the step named by fault when that step is run.
OptimizeRaises(image_bytes, fault) ==
  \/ ~image_bytes.valid
  \/ fault = "flatten" /\ NeedsFlatten(image_bytes)
  \/ fault = "resize" /\ NeedsResize(image_bytes)
  \/ fault = "save"

\* As _optimize_image, with the exception re-raised as the other methods do.
_optimize_image_Reraise(image_bytes, fault) ==
  IF OptimizeRaises(image_bytes, fault)
    THEN ImgRaise(image_bytes)
    ELSE ImgReturn(Encoded(Resized(Flattened(image_bytes))))

\* "except Exception: return image_bytes"
_optimize_image(image_bytes, fault) ==
  IF OptimizeRaises(image_bytes, fault)
    THEN ImgReturn(image_bytes)
    ELSE ImgReturn(Encoded(Resized(Flattened(image_bytes))))

(***************************************************************************)
(* Inputs                                                                  *)
(***************************************************************************)
MaxNativePages == 2
MaxImages == 11

MimeTypes ==
  DocumentType \cup {"", "text/plain", "image/gif", "APPLICATION/PDF", "application/pdf "}

\* Text of one PDF page as PyPDF2 extracts it.
PageTexts ==
  {<<>>, Ws(3), Body(34, 1), Body(35, 1), Body(85, 1), Body(86, 1),
   Body(30, 1) \o Ws(9), Body(84, 1) \o Ws(5)}

\* What the vision model reads on the pages of a rasterized PDF.
Profiles == {"blank", "full", "first68", "first69"}
VisionReply(profile, idx) ==
  IF profile = "blank" THEN <<TextBlock(<<>>)>>
  ELSE IF profile = "full" THEN <<TextBlock(Body(69, idx))>>
  ELSE IF idx > 1 THEN <<OtherBlock>>
  ELSE IF profile = "first68" THEN <<TextBlock(Ws(1) \o Body(68, idx))>>
  ELSE <<TextBlock(Body(69, idx) \o Ws(2))>>

\* What the vision model reads on a single image.
ImageReplies ==
  {<<>>, <<TextBlock(Body(50, 1))>>, <<TextBlock(Body(51, 1) \o Ws(1))>>,
   <<OtherBlock, TextBlock(Body(30, 1)), TextBlock(Body(30, 2))>>}

\* Replies of the model to the analysis prompt.
Obj(members) == <<LBrace>> \o members \o <<RBrace>>
AnalysisTexts ==
  {<<Prose, Prose>>,
   <<Scalar(IntV(5))>>,
   <<LBrace, Pair("summary", StrV("s"))>>,
   Obj(<<>>),
   Obj(<<Pair("summary", StrV("s")), Pair("duration_months", IntV(24)),
         Pair("confidence_score", FloatV(100))>>),
   <<Prose>> \o Obj(<<Pair("summary", StrV("s")), Pair("duration_months", IntV(0))>>),
   Obj(<<Pair("summary", StrV("s")), Pair("duration_months", IntV(-3)),
         Pair("confidence_score", FloatV(170))>>),
   Obj(<<Pair("summary", Null)>>),
   Obj(<<Pair("duration_months", StrV("abc"))>>),
   Obj(<<Pair("summary", StrV("s")), Pair("confidence_score", Null)>>)}
AnalysisReplies ==
  {<<TextBlock(x)>> : x \in AnalysisTexts}
    \cup {<<>>,
          <<OtherBlock, TextBlock(<<LBrace, Pair("summary", StrV("s"))>>),
            TextBlock(<<RBrace, Prose>>)>>}

\* Uploaded image bytes, and the step of _optimize_image that fails on them.
ImageInputs ==
  {[valid |-> FALSE, mode |-> "", w |-> 0, h |-> 0, fmt |-> "JPEG"]}
    \cup {[valid |-> TRUE, mode |-> m, w |-> sz[1], h |-> sz[2], fmt |-> "JPEG"] :
            m \in {"RGB", "RGBA", "P"}, sz \in {<<100, 50>>, <<4096, 1024>>}}
Faults == {"none", "flatten", "resize", "save"}
NoImage ==
  [called |-> FALSE, input |-> [valid |-> FALSE, mode |-> "", w |-> 0, h |-> 0, fmt |-> ""],
   fault |-> "none",
   out |-> ImgReturn([valid |-> FALSE, mode |-> "", w |-> 0, h |-> 0, fmt |-> ""])]
Optimized(img, fault) ==
  [called |-> TRUE, input |-> img, fault |-> fault, out |-> _optimize_image(img, fault)]

Days == {0, 100}
DurationInputs == {Null, IntV(0), IntV(1), IntV(24)}
PurchaseDates == {Null} \cup {DateV(d) : d \in Days}

(***************************************************************************)
(* State                                                                   *)
(***************************************************************************)
VARIABLES
  pc,             \* position of the running operation
  entry,          \* the operation the caller invoked
  mime_type,      \* process_document: mime_type
  native,         \* _process_pdf: extracted_text, once computed
  path,           \* the acquisition strategy that produced acq
  images,         \* _process_scanned_pdf: len(images)
  ocr_profile,    \* what the vision model reads on the rasterized pages
  text_parts,     \* _process_scanned_pdf: text_parts
  acq,            \* outcome of process_document
  image,          \* _optimize_image: argument, failing step and outcome
  calls,          \* external calls made so far
  response_text,  \* raw reply handed to _parse_analysis_response
  parsed,         \* outcome of _parse_analysis_response
  analysis,       \* outcome of analyze_warranty
  dates_in,       \* extract_warranty_dates: arguments
  dates,          \* extract_warranty_dates: result
  response,       \* outcome of the /analyze-warranty endpoint
  message,        \* message.content of the last vision and analysis replies
  runs,           \* concurrent requests: the locals of each call in flight
  parts           \* concurrent requests: the text_parts list of each call

vars ==
  <<pc, entry, mime_type, native, path, images, ocr_profile, text_parts, acq,
    image, calls, response_text, parsed, analysis, dates_in, dates, response,
    message, runs, parts>>

acqVars == <<mime_type, native, path, images, ocr_profile, text_parts, acq, image>>
anaVars == <<response_text, parsed, analysis>>
dateVars == <<dates_in, dates>>
concVars == <<runs, parts>>
seqVars ==
  <<pc, entry, mime_type, native, path, images, ocr_profile, text_parts, acq,
    image, calls, response_text, parsed, analysis, dates_in, dates, response,
    message>>

NoOutcome == [kind |-> "none", exc |-> "", value |-> NoResult]
NoDates == <<Null, Null>>
NoResponse ==
  [kind |-> "none", status |-> 0, result |-> NoResult,
   start_date |-> Null, expiry_date |-> Null]

\* Requests served at the same time by the one DocumentProcessor and the one
\* WarrantyAnalyzer of the module.
MaxRuns == 2
Runs == 1..MaxRuns

\* The locals of one request before it starts: mime_type, the pages PdfReader
\* gave (pdf), the outcome of convert_from_bytes (raster, images), the loop
\* index idx, the replies the vision calls gave (fed), ocr_result (acq), the
\* reply of the analysis call and analysis_result.
NoRun ==
  [pc |-> "idle", mime_type |-> "", pdf |-> [ok |-> FALSE, pages |-> <<>>],
   raster |-> "none", images |-> 0, idx |-> 0, fed |-> <<>>, acq |-> NoAcq,
   reply |-> [ok |-> FALSE, content |-> <<>>], analysis |-> NoOutcome]

\* As PartsSlot, with text_parts kept on the shared DocumentProcessor.
PartsSlot_Shared(r) == 1

\* "text_parts = []" makes a list of the call's own frame.
PartsSlot(r) == r

NoMessage == [vision |-> <<>>, analysis |-> <<>>]

Init ==
  /\ message = NoMessage
  /\ runs = [r \in Runs |-> NoRun]
  /\ parts = [r \in Runs |-> <<>>]
  /\ pc = "idle"
  /\ entry = "none"
  /\ mime_type = ""
  /\ native = <<>>
  /\ path = "none"
  /\ images = 0
  /\ ocr_profile = "blank"
  /\ text_parts = <<>>
  /\ acq = NoAcq
  /\ image = NoImage
  /\ calls = [vision |-> 0, decode |-> 0, model |-> 0]
  /\ response_text = <<>>
  /\ parsed = NoOutcome
  /\ analysis = NoOutcome
  /\ dates_in = <<Null, Null>>
  /\ dates = NoDates
  /\ response = NoResponse

(***************************************************************************)
(* The pure operations, called on their own                                *)
(***************************************************************************)
CallParse ==
  /\ pc = "idle"
  /\ \E text \in SeqsUpTo(Tokens, MaxReplyLen) \cup AnalysisTexts :
       /\ response_text' = text
       /\ parsed' = _parse_analysis_response(text)
  /\ entry' = "parse"
  /\ pc' = "done"
  /\ UNCHANGED <<concVars, message, acqVars, calls, analysis, dateVars, response>>

CallDates ==
  /\ pc = "idle"
  /\ \E m \in DurationInputs, d \in PurchaseDates, now \in Days :
       /\ dates_in' = <<m, d, DateV(now)>>
       /\ dates' = extract_warranty_dates(m, d, DateV(now))
  /\ entry' = "dates"
  /\ pc' = "done"
  /\ UNCHANGED <<concVars, message, acqVars, calls, anaVars, response>>

CallOptimize ==
  /\ pc = "idle"
  /\ \E img \in ImageInputs, fault \in Faults : image' = Optimized(img, fault)
  /\ entry' = "optimize"
  /\ pc' = "done"
  /\ UNCHANGED <<concVars, message, mime_type, native, path, images, ocr_profile, text_parts, acq,
                 calls, anaVars, dateVars, response>>

(***************************************************************************)
(* main.py: the /analyze-warranty endpoint, up to text extraction          *)
(***************************************************************************)
HttpError(code) == [NoResponse EXCEPT !.kind = "raise", !.status = code]

\* "if file.content_type not in [e.value for e in DocumentType]" and
\* "if file_size > settings.max_file_size"; "" stands for a missing type.
CallEndpoint ==
  /\ pc = "idle"
  /\ entry' = "endpoint"
  /\ \E mime \in MimeTypes, too_large \in BOOLEAN :
       /\ mime_type' = mime
       /\ IF mime \notin DocumentType
            THEN pc' = "done" /\ response' = HttpError(400)
            ELSE IF too_large
              THEN pc' = "done" /\ response' = HttpError(413)
              ELSE pc' = "process_document" /\ response' = response
  /\ UNCHANGED <<concVars, message, native, path, images, ocr_profile, text_parts, acq, calls,
                 anaVars, dateVars, image>>

(***************************************************************************)
(* document_processor.py: process_document                                 *)
(***************************************************************************)
CallProcessDocument ==
  /\ pc = "idle"
  /\ entry' = "process_document"
  /\ \E mime \in MimeTypes : mime_type' = mime
  /\ pc' = "process_document"
  /\ UNCHANGED <<concVars, message, native, path, images, ocr_profile, text_parts, acq, calls,
                 anaVars, dateVars, image, response>>

\* As AcqDone, with the endpoint going on to the analysis after a failure.
AcqDone_IgnoreFailure(outcome) ==
  /\ acq' = outcome
  /\ IF entry = "process_document"
       THEN pc' = "done" /\ response' = response
       ELSE pc' = "analyze" /\ response' = response

\* process_document returns or raises: control goes back to its caller. The
\* endpoint turns every exception into HTTP 500 and goes on to the analysis
\* after a result.
AcqDone(outcome) ==
  /\ acq' = outcome
  /\ IF entry = "process_document"
       THEN pc' = "done" /\ response' = response
       ELSE IF outcome.kind = "raise"
         THEN pc' = "done" /\ response' = HttpError(500)
         ELSE pc' = "analyze" /\ response' = response

process_document ==
  /\ pc = "process_document"
  /\ IF Strategy(mime_type) = "unsupported"
       THEN AcqDone(AcqRaise("ValueError: Unsupported document type"))
       ELSE /\ pc' = Strategy(mime_type)
            /\ UNCHANGED <<acq, response>>
  /\ UNCHANGED <<concVars, message, entry, mime_type, native, path, images, ocr_profile, text_parts,
                 calls, anaVars, dateVars, image>>

\* _process_pdf: PdfReader either raises on the bytes or yields the pages.
process_pdf ==
  /\ pc = "pdf"
  /\ calls' = [calls EXCEPT !.decode = @ + 1]
  /\ \/ /\ AcqDone(AcqRaise("PdfReadError"))
        /\ UNCHANGED <<native, path>>
     \/ \E pages \in SeqsUpTo(PageTexts, MaxNativePages) :
          /\ native' = NativeText(pages)
          /\ IF NeedsOCR(NativeText(pages))
               THEN /\ path' = "ocr"
                    /\ pc' = "scanned"
                    /\ UNCHANGED <<acq, response>>
               ELSE /\ path' = "native"
                    /\ AcqDone(NativeResult(NativeText(pages), Len(pages)))
  /\ UNCHANGED <<concVars, message, entry, mime_type, images, ocr_profile, text_parts, anaVars, dateVars, image>>

\* As MissingRasterizer, giving back an empty text instead of raising.
MissingRasterizer_EmptyText == OCRResult(<<>>, 60, 0)

\* "except ImportError: raise ValueError(...)"
MissingRasterizer == AcqRaise("ValueError: Cannot process scanned PDFs")

\* _process_scanned_pdf up to the page loop: the import of pdf2image and
\* convert_from_bytes.
rasterize ==
  /\ pc = "scanned"
  /\ \/ /\ AcqDone(MissingRasterizer)
        /\ UNCHANGED <<images, ocr_profile, text_parts, calls>>
     \/ /\ AcqDone(AcqRaise("PDFPageCountError"))
        /\ calls' = [calls EXCEPT !.decode = @ + 1]
        /\ UNCHANGED <<images, ocr_profile, text_parts>>
     \/ /\ \E n \in 0..MaxImages, profile \in Profiles :
             images' = n /\ ocr_profile' = profile
        /\ calls' = [calls EXCEPT !.decode = @ + 1]
        /\ text_parts' = <<>>
        /\ pc' = "scan_loop"
        /\ UNCHANGED <<acq, response>>
  /\ UNCHANGED <<concVars, message, entry, mime_type, native, path, anaVars, dateVars, image>>

\* As scan_page, with the pages read so far returned when a vision call fails.
scan_page_PartialResult ==
  /\ pc = "scan_loop"
  /\ Len(text_parts) < PagesToOCR(images)
  /\ calls' = [calls EXCEPT !.vision = @ + 1]
  /\ \/ /\ AcqDone(ScannedResult(text_parts, images))
        /\ UNCHANGED <<text_parts, message>>
     \/ /\ text_parts' =
             Append(text_parts,
                    PagePart(Len(text_parts) + 1,
                             VisionText(VisionReply(ocr_profile, Len(text_parts) + 1))))
        /\ message' = [message EXCEPT
                         !.vision = VisionReply(ocr_profile, Len(text_parts) + 1)]
        /\ UNCHANGED <<pc, acq, response>>
  /\ UNCHANGED <<concVars, entry, mime_type, native, path, images, ocr_profile, anaVars, dateVars, image>>

\* One turn of "for idx, image in enumerate(images[:10], 1)": one vision call.
scan_page ==
  /\ pc = "scan_loop"
  /\ Len(text_parts) < PagesToOCR(images)
  /\ calls' = [calls EXCEPT !.vision = @ + 1]
  /\ \/ /\ AcqDone(AcqRaise("RuntimeError"))
        /\ UNCHANGED <<text_parts, message>>
     \/ /\ text_parts' =
             Append(text_parts,
                    PagePart(Len(text_parts) + 1,
                             VisionText(VisionReply(ocr_profile, Len(text_parts) + 1))))
        /\ message' = [message EXCEPT
                         !.vision = VisionReply(ocr_profile, Len(text_parts) + 1)]
        /\ UNCHANGED <<pc, acq, response>>
  /\ UNCHANGED <<concVars, entry, mime_type, native, path, images, ocr_profile, anaVars, dateVars, image>>

\* _process_scanned_pdf after the loop
scan_finish ==
  /\ pc = "scan_loop"
  /\ Len(text_parts) = PagesToOCR(images)
  /\ AcqDone(ScannedResult(text_parts, images))
  /\ UNCHANGED <<concVars, message, entry, mime_type, native, path, images, ocr_profile, text_parts,
                 calls, anaVars, dateVars, image>>

\* _process_image_with_claude: _optimize_image never raises; then one vision call.
process_image ==
  /\ pc = "image"
  /\ path' = "image"
  /\ \E img \in ImageInputs, fault \in Faults :
       /\ image' = Optimized(img, fault)
       /\ IF Optimized(img, fault).out.kind = "raise"
            THEN /\ calls' = [calls EXCEPT !.decode = @ + 1]
                 /\ AcqDone(AcqRaise("ImageError"))
                 /\ UNCHANGED message
            ELSE /\ calls' = [calls EXCEPT !.decode = @ + 1, !.vision = @ + 1]
                 /\ \/ /\ AcqDone(AcqRaise("RuntimeError"))
                       /\ UNCHANGED message
                    \/ \E content \in ImageReplies :
                         /\ message' = [message EXCEPT !.vision = content]
                         /\ AcqDone(ImageResult(VisionText(content)))
  /\ UNCHANGED <<concVars, entry, mime_type, native, images, ocr_profile, text_parts,
                 anaVars, dateVars>>

(***************************************************************************)
(* warranty_analyzer.py: analyze_warranty                                  *)
(***************************************************************************)
\* From the reply to the result object: the text of the blocks, the parse,
\* the ClaudeAnalysisResult constructor; "except Exception: raise".
AnalysisOf(content) ==
  LET data == _parse_analysis_response(BlocksText(content))
  IN IF data.kind = "raise" THEN data ELSE ClaudeAnalysisResult(data.value)

\* As analyze_warranty, with the model call made again after a first error.
analyze_warranty_Retry ==
  /\ pc = "analyze"
  /\ calls' = [calls EXCEPT !.model = @ + 1]
  /\ \/ /\ calls.model = 0
        /\ UNCHANGED <<pc, response, response_text, parsed, analysis, message>>
     \/ /\ \/ /\ analysis' = Raise("APIError")
              /\ UNCHANGED <<response_text, parsed, message>>
           \/ \E content \in AnalysisReplies :
                /\ message' = [message EXCEPT !.analysis = content]
                /\ response_text' = BlocksText(content)
                /\ parsed' = _parse_analysis_response(BlocksText(content))
                /\ analysis' = AnalysisOf(content)
        /\ IF analysis'.kind = "raise"
             THEN pc' = "done" /\ response' = HttpError(500)
             ELSE pc' = "respond" /\ response' = response
  /\ UNCHANGED <<concVars, entry, acqVars, dateVars>>

analyze_warranty ==
  /\ pc = "analyze"
  /\ calls' = [calls EXCEPT !.model = @ + 1]
  /\ \/ /\ analysis' = Raise("APIError")
        /\ UNCHANGED <<response_text, parsed, message>>
     \/ \E content \in AnalysisReplies :
          /\ message' = [message EXCEPT !.analysis = content]
          /\ response_text' = BlocksText(content)
          /\ parsed' = _parse_analysis_response(BlocksText(content))
          /\ analysis' = AnalysisOf(content)
  /\ IF analysis'.kind = "raise"
       THEN pc' = "done" /\ response' = HttpError(500)
       ELSE pc' = "respond" /\ response' = response
  /\ UNCHANGED <<concVars, entry, acqVars, dateVars>>

(***************************************************************************)
(* main.py: steps 3 and 4 of the endpoint                                  *)
(***************************************************************************)
\* "if analysis_result.duration_months:" is the truth value of an int or None
Truthy(v) == v.t = "int" /\ v.n # 0

EndpointDates(duration_months, now) ==
  IF Truthy(duration_months)
    THEN extract_warranty_dates(duration_months, Null, now)
    ELSE <<Null, Null>>

respond ==
  /\ pc = "respond"
  /\ \E now \in Days :
       /\ dates_in' = <<analysis.value["duration_months"], Null, DateV(now)>>
       /\ dates' = EndpointDates(analysis.value["duration_months"], DateV(now))
  /\ response' =
       [kind |-> "return", status |-> 201, result |-> analysis.value,
        start_date |-> dates'[1], expiry_date |-> dates'[2]]
  /\ pc' = "done"
  /\ UNCHANGED <<concVars, message, entry, acqVars, calls, anaVars>>

Next ==
  \/ CallParse
  \/ CallDates
  \/ CallOptimize
  \/ CallEndpoint
  \/ CallProcessDocument
  \/ process_document
  \/ process_pdf
  \/ rasterize
  \/ scan_page
  \/ scan_finish
  \/ process_image
  \/ analyze_warranty
  \/ respond

Spec == Init /\ [][Next]_vars

(***************************************************************************)
(* Properties of the reply parser                                          *)
(***************************************************************************)
ParseCalled == entry = "parse" /\ pc = "done"
Decoded == json_loads(json_str(response_text))
Score(outcome) == outcome.value["confidence_score"]
ScoreKey == "confidence_score"

\* C1: _parse_analysis_response raises nothing: whatever the raw reply, it
\* returns a mapping that has every field of the result.
C1_ParseNeverRaises ==
  ParseCalled => parsed.kind = "return" /\ DOMAIN parsed.value = FieldNames

\* C2: whenever the parser returns a result, its confidence_score is a number
\* in [0, 1], and so is the score of every result object built from it.
C2_ScoreInUnitInterval ==
  /\ parsed.kind = "return" =>
       /\ IsNumber(Score(parsed))
       /\ 0 <= Hundredths(Score(parsed))
       /\ Hundredths(Score(parsed)) <= 100
  /\ analysis.kind = "return" =>
       /\ IsNumber(Score(analysis))
       /\ 0 <= Hundredths(Score(analysis))
       /\ Hundredths(Score(analysis)) <= 100

C2_Witness ==
  /\ ParseCalled
  /\ Decoded.isDict
  /\ ScoreKey \in DOMAIN Decoded.dict
  /\ Decoded.dict[ScoreKey] = FloatV(170)
  /\ parsed.kind = "return"

\* C3: when the reply decodes to an object, a confidence_score that is absent
\* or a number outside [0, 1] is returned as exactly 0.5, and a number inside
\* [0, 1] is returned as it was decoded.
C3_ScoreSubstitution ==
  (ParseCalled /\ Decoded.isDict) =>
    LET data == Decoded.dict
    IN /\ ScoreKey \notin DOMAIN data =>
            parsed.kind = "return" /\ Score(parsed) = FloatV(50)
       /\ (ScoreKey \in DOMAIN data /\ IsNumber(data[ScoreKey])) =>
            /\ parsed.kind = "return"
            /\ Score(parsed) =
                 IF 0 <= Hundredths(data[ScoreKey]) /\ Hundredths(data[ScoreKey]) <= 100
                   THEN data[ScoreKey]
                   ELSE FloatV(50)

C3_Witness ==
  /\ ParseCalled
  /\ Decoded.isDict
  /\ ScoreKey \notin DOMAIN Decoded.dict
  /\ "summary" \in DOMAIN Decoded.dict
  /\ parsed.kind = "return"

\* C4: when the candidate payload is not decodable as JSON, the parser returns
\* the minimal result: the failure-marker summary, empty lists, empty
\* claim_contacts, null optional fields and confidence_score 0.1.
C4_MinimalResultOnDecodeFailure ==
  (ParseCalled /\ ~Decoded.ok) =>
    /\ parsed.kind = "return"
    /\ DOMAIN parsed.value = FieldNames
    /\ parsed.value["summary"] = StrV("Failed to analyze warranty contract")
    /\ \A f \in ListFields : parsed.value[f] = EmptyList
    /\ parsed.value["claim_contacts"] = EmptyDict
    /\ \A f \in NullableFields : parsed.value[f] = Null
    /\ Score(parsed) = FloatV(10)

C4_Witness ==
  /\ ParseCalled
  /\ response_text = <<Prose, Prose>>
  /\ parsed.kind = "return"

(***************************************************************************)
(* Properties of analyze_warranty and of the endpoint around it            *)
(***************************************************************************)
\* C5: once the model call has returned, analyze_warranty and the endpoint
\* produce a result; only an error of the model call makes them raise.
C5_OnlyModelCallFails ==
  /\ analysis.kind = "raise" => analysis.exc = "APIError"
  /\ (entry = "endpoint" /\ calls.model > 0 /\ response.kind = "raise") =>
       analysis.exc = "APIError"

(***************************************************************************)
(* Properties of the text acquisition                                      *)
(***************************************************************************)
Acquired == acq.kind = "return"
Unsupported == "ValueError: Unsupported document type"

\* C6: a PDF whose native text has fewer than 50 characters after trimming
\* goes to the OCR fallback, and what is returned is the OCR text of the
\* rasterized pages; with 50 or more the native text is returned and no
\* vision call is made.
C6_PdfPathSelection ==
  path \in {"native", "ocr"} =>
    IF TextLen(Strip(native)) < 50
      THEN /\ path = "ocr"
           /\ pc \in {"scanned", "scan_loop"} \/ acq.kind # "none"
           /\ Acquired =>
                /\ calls.decode = 2
                /\ acq.text = Strip(Join(text_parts))
                /\ calls.vision = Len(text_parts)
      ELSE /\ path = "native"
           /\ Acquired
           /\ acq.text = Strip(native)
           /\ calls.vision = 0

C6_Witness ==
  /\ path = "ocr"
  /\ TextLen(Strip(native)) > 0
  /\ TextLen(native) >= 50
  /\ Acquired
  /\ TextLen(acq.text) > 100

\* C7: on the OCR path of a scanned PDF the returned page_count is the number
\* of page images submitted for OCR, min(n, 10) for n rasterized pages.
C7_PageCountIsPagesProcessed ==
  (path = "ocr" /\ Acquired) =>
    /\ acq.page_count = Len(text_parts)
    /\ acq.page_count = IF images < 10 THEN images ELSE 10

\* C8: the confidence of every acquired text is in [0, 1] and is the formula
\* of its path applied to the length of the returned text.
C8_ConfidenceFormula ==
  Acquired =>
    /\ 0 <= acq.confidence /\ acq.confidence <= 100
    /\ path = "native" =>
         acq.confidence = IF TextLen(acq.text) > 100 THEN 95 ELSE 70
    /\ path = "ocr" =>
         acq.confidence = IF TextLen(acq.text) > 100 THEN 85 ELSE 60
    /\ path = "image" =>
         acq.confidence = IF TextLen(acq.text) > 50 THEN 88 ELSE 65

\* C9: process_document accepts exactly application/pdf, image/png,
\* image/jpeg and image/jpg; any other MIME type raises the unsupported-type
\* error before any decode or model call and without choosing a strategy.
C9_ExactMediaTypes ==
  (entry = "process_document" /\ pc # "process_document") =>
    IF mime_type \in {"application/pdf", "image/png", "image/jpeg", "image/jpg"}
      THEN acq.exc # Unsupported
      ELSE /\ pc = "done"
           /\ acq.kind = "raise"
           /\ acq.exc = Unsupported
           /\ path = "none"
           /\ calls = [vision |-> 0, decode |-> 0, model |-> 0]

C9_Witness ==
  /\ entry = "process_document"
  /\ mime_type = "APPLICATION/PDF"
  /\ pc = "done"
  /\ acq.exc = Unsupported

(***************************************************************************)
(* Properties of the date computation                                      *)
(***************************************************************************)
\* C10: extract_warranty_dates returns (None, None) whenever duration_months
\* is None, whatever the purchase date, given or not.
C10_NoDurationNoDates ==
  (entry = "dates" /\ pc = "done" /\ dates_in[1] = Null) => dates = <<Null, Null>>

C10_Witness ==
  /\ entry = "dates"
  /\ pc = "done"
  /\ dates_in[1] = Null
  /\ dates_in[2] # Null
  /\ dates = <<Null, Null>>

\* C11: for a duration of m months, extract_warranty_dates returns the
\* purchase date D and D + 30 * m days (D + 720 days for m = 24); without a
\* purchase date the start is the current time and the expiry is 30 * m days
\* after that start.
C11_ThirtyDayMonths ==
  (entry = "dates" /\ pc = "done" /\ dates_in[1] # Null) =>
    LET m == dates_in[1].n
        start == IF dates_in[2] # Null THEN dates_in[2] ELSE dates_in[3]
    IN /\ dates[1] = start
       /\ dates[2] = DateV(start.n + 30 * m)
       /\ (m = 24 /\ dates_in[2] # Null) => dates[2].n = dates_in[2].n + 720

C11_Witness ==
  /\ entry = "dates"
  /\ pc = "done"
  /\ dates_in = <<IntV(24), DateV(0), DateV(100)>>
  /\ dates = <<DateV(0), DateV(720)>>

C11_WitnessNow ==
  /\ entry = "dates"
  /\ dates_in = <<IntV(1), Null, DateV(100)>>
  /\ dates = <<DateV(100), DateV(130)>>

(***************************************************************************)
(* Properties of the pipeline as a whole                                   *)
(***************************************************************************)
AcqFailed == acq.kind = "raise"
OCRError == "RuntimeError"

\* C12 as stated: whenever the acquisition has failed, no external model
\* call at all has been made, neither a vision call nor the analysis call.
C12_NoModelCallBeforeFailure ==
  AcqFailed => calls.vision = 0 /\ calls.model = 0

\* C12 as amended: whenever the acquisition has failed, the analysis call has
\* not been made and is never made; the endpoint ends with an error. A
\* failure other than an OCR error comes before any vision call, and an OCR
\* error comes from a vision call that was made.
C12_NoAnalysisAfterFailure ==
  AcqFailed =>
    /\ calls.model = 0
    /\ analysis.kind = "none"
    /\ pc = "done"
    /\ entry = "endpoint" => response = HttpError(500)
    /\ acq.exc # OCRError => calls.vision = 0
    /\ acq.exc = OCRError => calls.vision >= 1

C12_Witness ==
  /\ entry = "endpoint"
  /\ AcqFailed
  /\ acq.exc = OCRError
  /\ calls.vision = 3
  /\ response = HttpError(500)

\* C13: when a PDF needs the OCR fallback and pdf2image cannot be imported
\* (so that convert_from_bytes is never called), process_document raises the
\* missing-library error and returns no result, whatever the native text was.
C13_MissingRasterizerRaises ==
  (path = "ocr" /\ pc # "scanned" /\ calls.decode = 1) =>
    /\ ~Acquired
    /\ acq.kind = "raise"
    /\ acq.exc = "ValueError: Cannot process scanned PDFs"
    /\ calls.vision = 0

C13_Witness ==
  /\ path = "ocr"
  /\ pc = "done"
  /\ calls.decode = 1
  /\ TextLen(Strip(native)) > 0
  /\ acq.kind = "raise"

(***************************************************************************)
(* Properties of the image optimization                                    *)
(***************************************************************************)
\* C14: _optimize_image raises nothing: it always returns bytes, and
\* whenever decoding, flattening, resizing or re-encoding raises, the bytes
\* it returns are the bytes it was given.
C14_OptimizeNeverRaises ==
  image.called =>
    /\ image.out.kind = "return"
    /\ OptimizeRaises(image.input, image.fault) => image.out.bytes = image.input

C14_Witness ==
  /\ image.called
  /\ image.input.valid
  /\ image.input.w = 4096
  /\ image.fault = "resize"
  /\ image.out = ImgReturn(image.input)

C14_WitnessOptimized ==
  /\ image.called
  /\ image.input.mode = "RGBA"
  /\ image.input.w = 4096
  /\ image.out.bytes = [valid |-> TRUE, mode |-> "RGB", w |-> 2048, h |-> 512, fmt |-> "PNG"]

(***************************************************************************)
(* Properties of the model calls                                           *)
(***************************************************************************)
\* C15: nothing is retried. An analysis makes exactly one model call, an
\* image and every OCR'd page of a scanned PDF exactly one vision call, and
\* an error of a call ends the operation with that error, the call not
\* being made again.
C15_NoRetry ==
  /\ calls.model <= 1
  /\ (analysis.kind # "none") = (calls.model = 1)
  /\ path = "image" => calls.vision <= 1
  /\ (path = "image" /\ Acquired) => calls.vision = 1
  /\ path = "ocr" =>
       calls.vision = Len(text_parts) + (IF acq.exc = OCRError THEN 1 ELSE 0)
  /\ analysis.exc = "APIError" => pc = "done" /\ response = HttpError(500)
  /\ acq.exc = OCRError =>
       /\ pc = "done"
       /\ entry = "endpoint" => response = HttpError(500)

C15_Witness ==
  /\ analysis.exc = "APIError"
  /\ calls.model = 1
  /\ path = "ocr"
  /\ calls.vision = 10
  /\ response = HttpError(500)

\* C17: when the reply decodes to an object whose confidence_score is a
\* number outside [0, 1], the parser returns a result with score 0.5 in which
\* every other field is the payload's value as decoded, or the default of
\* data.get for a key the payload lacks.
C17_OutOfRangeScoreFrame ==
  (/\ ParseCalled
   /\ Decoded.isDict
   /\ ScoreKey \in DOMAIN Decoded.dict
   /\ IsNumber(Decoded.dict[ScoreKey])
   /\ ~ScoreInRange(Decoded.dict[ScoreKey])) =>
    /\ parsed.kind = "return"
    /\ Score(parsed) = FloatV(50)
    /\ \A f \in FieldNames \ {ScoreKey} :
         parsed.value[f] =
           IF f \in DOMAIN Decoded.dict THEN Decoded.dict[f] ELSE FieldDefault(f)

C17_Witness ==
  /\ ParseCalled
  /\ Decoded.isDict
  /\ ScoreKey \in DOMAIN Decoded.dict
  /\ ~ScoreInRange(Decoded.dict[ScoreKey])
  /\ "duration_months" \in DOMAIN Decoded.dict
  /\ Decoded.dict["duration_months"] = IntV(-3)
  /\ parsed.kind = "return"
  /\ parsed.value["summary"] = StrV("s")
  /\ Score(parsed) = FloatV(50)

(***************************************************************************)
(* Properties of the value ranges                                          *)
(***************************************************************************)
\* C18: every acquired text has page_count >= 1, on the native, the OCR and
\* the image path, a PDF with no pages or no rasterized images included.
C18_PageCountAtLeastOne ==
  Acquired => acq.page_count >= 1

\* C19: duration_months is null or an integer >= 0 in every result of the
\* parser and of the analysis, and in every call of the date computation.
C19_DurationNonNegative ==
  LET NonNegative(v) == v = Null \/ (v.t = "int" /\ v.n >= 0)
  IN /\ parsed.kind = "return" => NonNegative(parsed.value["duration_months"])
     /\ analysis.kind = "return" => NonNegative(analysis.value["duration_months"])
     /\ response.kind = "return" =>
          /\ NonNegative(response.result["duration_months"])
          /\ Truthy(dates_in[1]) => dates_in[1].n >= 0

(***************************************************************************)
(* Concurrent requests to the /analyze-warranty endpoint                   *)
(***************************************************************************)
\* The documents and the replies of the model the requests are served with.
ConcMimeTypes == {PDF, PNG, "text/plain"}
ConcPages == {<<>>, <<Body(86, 1)>>}
ConcImageCounts == {0, 2}
ConcVisionReplies == {<<TextBlock(Body(60, 1))>>, <<TextBlock(Body(60, 2))>>}
ConcAnalysisReplies ==
  {<<TextBlock(Obj(<<Pair("summary", StrV("s")), Pair("duration_months", IntV(24)),
                     Pair("confidence_score", FloatV(100))>>))>>}

Got(content) == [ok |-> TRUE, content |-> content]
Failed == [ok |-> FALSE, content |-> <<>>]

\* A step of request r writes the locals of r.
Step(r, run) == runs' = [runs EXCEPT ![r] = run]

\* process_document returned or raised in request r.
RunAcqDone(r, run, outcome) ==
  Step(r, [run EXCEPT !.acq = outcome,
                      !.pc = IF outcome.kind = "raise" THEN "done" ELSE "analyze"])

\* The media type and size checks of the endpoint.
Receive(r) ==
  /\ runs[r].pc = "idle"
  /\ \E mime \in ConcMimeTypes :
       Step(r, [runs[r] EXCEPT !.mime_type = mime,
                               !.pc = IF mime \in DocumentType
                                        THEN "process_document" ELSE "done"])
  /\ UNCHANGED <<parts, seqVars>>

RunProcessDocument(r) ==
  /\ runs[r].pc = "process_document"
  /\ IF Strategy(runs[r].mime_type) = "unsupported"
       THEN RunAcqDone(r, runs[r], AcqRaise("ValueError: Unsupported document type"))
       ELSE Step(r, [runs[r] EXCEPT !.pc = Strategy(runs[r].mime_type)])
  /\ UNCHANGED <<parts, seqVars>>

RunProcessPdf(r) ==
  /\ runs[r].pc = "pdf"
  /\ \/ RunAcqDone(r, runs[r], AcqRaise("PdfReadError"))
     \/ \E pages \in ConcPages :
          LET run == [runs[r] EXCEPT !.pdf = [ok |-> TRUE, pages |-> pages]]
          IN IF NeedsOCR(NativeText(pages))
               THEN Step(r, [run EXCEPT !.pc = "scanned"])
               ELSE RunAcqDone(r, run, NativeResult(NativeText(pages), Len(pages)))
  /\ UNCHANGED <<parts, seqVars>>

RunRasterize(r) ==
  /\ runs[r].pc = "scanned"
  /\ \/ /\ RunAcqDone(r, [runs[r] EXCEPT !.raster = "missing"], MissingRasterizer)
        /\ UNCHANGED parts
     \/ /\ RunAcqDone(r, [runs[r] EXCEPT !.raster = "error"],
                      AcqRaise("PDFPageCountError"))
        /\ UNCHANGED parts
     \/ /\ \E n \in ConcImageCounts :
             Step(r, [runs[r] EXCEPT !.raster = "ok", !.images = n, !.idx = 1,
                                     !.pc = "scan_loop"])
        /\ parts' = [parts EXCEPT ![PartsSlot(r)] = <<>>]
  /\ UNCHANGED seqVars

RunScanPage(r) ==
  /\ runs[r].pc = "scan_loop"
  /\ runs[r].idx <= PagesToOCR(runs[r].images)
  /\ \/ /\ RunAcqDone(r, [runs[r] EXCEPT !.fed = Append(@, Failed)],
                      AcqRaise("RuntimeError"))
        /\ UNCHANGED parts
     \/ \E content \in ConcVisionReplies :
          /\ parts' = [parts EXCEPT ![PartsSlot(r)] =
                         Append(@, PagePart(runs[r].idx, VisionText(content)))]
          /\ Step(r, [runs[r] EXCEPT !.fed = Append(@, Got(content)),
                                     !.idx = @ + 1])
  /\ UNCHANGED seqVars

RunScanFinish(r) ==
  /\ runs[r].pc = "scan_loop"
  /\ runs[r].idx > PagesToOCR(runs[r].images)
  /\ RunAcqDone(r, runs[r], ScannedResult(parts[PartsSlot(r)], runs[r].images))
  /\ UNCHANGED <<parts, seqVars>>

\* _process_image_with_claude: the optimized bytes go to the one vision call.
RunProcessImage(r) ==
  /\ runs[r].pc = "image"
  /\ \/ RunAcqDone(r, [runs[r] EXCEPT !.fed = <<Failed>>], AcqRaise("RuntimeError"))
     \/ \E content \in ConcVisionReplies :
          RunAcqDone(r, [runs[r] EXCEPT !.fed = <<Got(content)>>],
                     ImageResult(VisionText(content)))
  /\ UNCHANGED <<parts, seqVars>>

RunAnalyze(r) ==
  /\ runs[r].pc = "analyze"
  /\ \/ Step(r, [runs[r] EXCEPT !.reply = Failed, !.analysis = Raise("APIError"),
                                !.pc = "done"])
     \/ \E content \in ConcAnalysisReplies :
          Step(r, [runs[r] EXCEPT !.reply = Got(content),
                                  !.analysis = AnalysisOf(content),
                                  !.pc = "done"])
  /\ UNCHANGED <<parts, seqVars>>

NextConc ==
  \E r \in Runs :
    \/ Receive(r)
    \/ RunProcessDocument(r)
    \/ RunProcessPdf(r)
    \/ RunRasterize(r)
    \/ RunScanPage(r)
    \/ RunScanFinish(r)
    \/ RunProcessImage(r)
    \/ RunAnalyze(r)

SpecConc == Init /\ [][NextConc]_vars

(***************************************************************************)
(* Properties of concurrent requests                                       *)
(***************************************************************************)
\* What a request served alone returns for the document and the replies that
\* run got: the text and the analysis of the sequential pipeline.
AloneParts(fed) == [i \in 1..Len(fed) |-> PagePart(i, VisionText(fed[i].content))]

AloneAcq(run) ==
  IF Strategy(run.mime_type) = "unsupported"
    THEN AcqRaise("ValueError: Unsupported document type")
  ELSE IF Strategy(run.mime_type) = "image"
    THEN IF ~run.fed[1].ok
           THEN AcqRaise("RuntimeError")
           ELSE ImageResult(VisionText(run.fed[1].content))
  ELSE IF ~run.pdf.ok THEN AcqRaise("PdfReadError")
  ELSE IF ~NeedsOCR(NativeText(run.pdf.pages))
    THEN NativeResult(NativeText(run.pdf.pages), Len(run.pdf.pages))
  ELSE IF run.raster = "missing" THEN MissingRasterizer
  ELSE IF run.raster = "error" THEN AcqRaise("PDFPageCountError")
  ELSE IF \E i \in 1..Len(run.fed) : ~run.fed[i].ok THEN AcqRaise("RuntimeError")
  ELSE ScannedResult(AloneParts(run.fed), run.images)

AloneAnalysis(run) ==
  IF run.reply.ok THEN AnalysisOf(run.reply.content) ELSE Raise("APIError")

\* C20: in every interleaving of the requests, the text acquired by each
\* request and its analysis are what the request gives when served alone on
\* the same document with the same replies of the model.
C20_RunsIndependent ==
  \A r \in Runs :
    /\ runs[r].acq.kind # "none" => runs[r].acq = AloneAcq(runs[r])
    /\ runs[r].analysis.kind # "none" => runs[r].analysis = AloneAnalysis(runs[r])

\* Request 1 has its OCR text of two pages and waits for its analysis while
\* request 2 is between the two pages of another document.
C20_Witness ==
  /\ runs[1].pc = "analyze"
  /\ runs[1].raster = "ok"
  /\ Len(runs[1].fed) = 2
  /\ runs[1].acq.kind = "return"
  /\ runs[2].pc = "scan_loop"
  /\ runs[2].idx = 2
  /\ runs[2].images = 2
  /\ runs[2].fed[1] # runs[1].fed[1]

(***************************************************************************)
(* Properties of the result fields, the payload and the reply text         *)
(***************************************************************************)
\* C21: when the reply decodes to an object (with a score that is absent or a
\* number), every field other than the score is the value of its key in the
\* object, and a key the object lacks gives the empty string for summary, the
\* empty list for the list fields, the empty mapping for claim_contacts and
\* null for duration, duration_months, claim_procedure, transferable and
\* extended_options.
C21_FieldsFromPayloadOrDefault ==
  (/\ ParseCalled
   /\ Decoded.isDict
   /\ ScoreKey \in DOMAIN Decoded.dict => IsNumber(Decoded.dict[ScoreKey])) =>
    /\ parsed.kind = "return"
    /\ DOMAIN parsed.value = FieldNames
    /\ \A f \in FieldNames \ {ScoreKey} :
         parsed.value[f] =
           IF f \in DOMAIN Decoded.dict THEN Decoded.dict[f]
           ELSE IF f = "summary" THEN StrV("")
           ELSE IF f \in ListFields THEN EmptyList
           ELSE IF f = "claim_contacts" THEN EmptyDict
           ELSE Null

C21_Witness ==
  /\ ParseCalled
  /\ Decoded.isDict
  /\ DOMAIN Decoded.dict = {"duration_months"}
  /\ parsed.kind = "return"
  /\ parsed.value["summary"] = StrV("")
  /\ parsed.value["coverage_items"] = EmptyList
  /\ parsed.value["claim_contacts"] = EmptyDict
  /\ parsed.value["duration"] = Null

\* C22: the payload the parser decodes is the span from the first "{" of the
\* reply to its last "}" when some "}" follows the first "{", and the whole
\* reply otherwise; the outcome of the parse is that of decoding this payload.
C22_GreedyBraceSpan ==
  ParseCalled =>
    LET text == response_text
        opens == {i \in 1..Len(text) : text[i] = LBrace}
        closes == {j \in 1..Len(text) : text[j] = RBrace}
        paired == \E i \in opens, j \in closes : i < j
        payload ==
          IF paired
            THEN SubSeq(text, CHOOSE i \in opens : \A k \in opens : i <= k,
                              CHOOSE j \in closes : \A k \in closes : k <= j)
            ELSE text
    IN /\ json_str(text) = payload
       /\ parsed = ParseDecoded(json_loads(payload))

C22_Witness ==
  /\ ParseCalled
  /\ response_text = <<LBrace, RBrace, RBrace>>
  /\ json_str(response_text) = response_text
  /\ parsed = Return(MinimalResult)

\* The blocks of a reply that carry a text payload, in block order, and
\* their payloads put end to end.
TextBearing(content) == SelectSeq(content, LAMBDA b : b.hasText)

RECURSIVE ConcatTexts(_)
ConcatTexts(blocks) ==
  IF blocks = <<>> THEN <<>>
  ELSE ConcatTexts(SubSeq(blocks, 1, Len(blocks) - 1)) \o blocks[Len(blocks)].text

AnalysisReplied == analysis.kind # "none" /\ analysis.exc # "APIError"
ImageRead == path = "image" /\ Acquired

\* C23 as stated: the raw reply handed to the parser, and the OCR text of an
\* image, are the text payloads of the text-bearing blocks put end to end in
\* block order.
C23_ConcatenatedTextBlocks ==
  /\ AnalysisReplied => response_text = ConcatTexts(TextBearing(message.analysis))
  /\ ImageRead => acq.text = ConcatTexts(TextBearing(message.vision))

\* C23 amended: the raw reply handed to the parser is the text payloads of the
\* text-bearing blocks put end to end in block order; the OCR text of an
\* image is that concatenation with leading and trailing whitespace removed.
C23_ConcatenatedThenTrimmed ==
  /\ AnalysisReplied => response_text = ConcatTexts(TextBearing(message.analysis))
  /\ ImageRead => acq.text = Strip(ConcatTexts(TextBearing(message.vision)))

C23_Witness ==
  /\ AnalysisReplied
  /\ ImageRead
  /\ Len(message.vision) = 3
  /\ Len(TextBearing(message.vision)) = 2
  /\ Len(message.analysis) = 3
  /\ Len(TextBearing(message.analysis)) = 2
  /\ response_text # <<>>

(***************************************************************************)
(* Properties of the derived dates                                         *)
(***************************************************************************)
\* C24: in a response of the endpoint, start_date and expiry_date are both
\* non-null when the extracted duration_months is non-null, 0 included, and
\* both null when it is null.
C24_DatesIffDuration ==
  (entry = "endpoint" /\ response.kind = "return") =>
    IF response.result["duration_months"] = Null
      THEN response.start_date = Null /\ response.expiry_date = Null
      ELSE response.start_date # Null /\ response.expiry_date # Null

(***************************************************************************)
(* Properties of the scanned-PDF path                                      *)
(***************************************************************************)
\* C25: on the scanned-PDF path the vision calls are made one page at a time
\* in page order; a PDF rasterized to n images gets min(n, 10) of them, and
\* the returned text is the page results in page order, each after its page
\* marker, joined by blank lines and trimmed.
C25_PageOrderedOCR ==
  path = "ocr" =>
    /\ Len(text_parts) <= (IF images < 10 THEN images ELSE 10)
    /\ acq.exc # OCRError => calls.vision = Len(text_parts)
    /\ \A i \in 1..Len(text_parts) :
         text_parts[i] =
           PageMarker(i) \o Strip(ConcatTexts(TextBearing(VisionReply(ocr_profile, i))))
    /\ (pc = "scan_loop" /\ text_parts # <<>>) =>
         message.vision = VisionReply(ocr_profile, Len(text_parts))
    /\ Acquired =>
         /\ calls.vision = (IF images < 10 THEN images ELSE 10)
         /\ Len(text_parts) = calls.vision
         /\ acq.text = Strip(Join(text_parts))

C25_Witness ==
  /\ path = "ocr"
  /\ Acquired
  /\ images = 11
  /\ calls.vision = 10
  /\ ocr_profile = "full"
  /\ Len(text_parts) = 10
  /\ TextLen(acq.text) > 100

\* C26: when the vision call of a page of a scanned PDF fails, the extraction
\* fails as a whole: it raises the OCR error, returns no text of the pages
\* read before, makes no further vision call, and the endpoint answers with an
\* error without an analysis.
C26_NoPartialOCR ==
  (path = "ocr" /\ calls.vision > Len(text_parts)) =>
    /\ acq = AcqRaise(OCRError)
    /\ acq.text = <<>>
    /\ calls.vision = Len(text_parts) + 1
    /\ pc = "done"
    /\ entry = "endpoint" =>
         /\ response = HttpError(500)
         /\ analysis.kind = "none"
         /\ calls.model = 0

C26_Witness ==
  /\ path = "ocr"
  /\ entry = "endpoint"
  /\ acq.exc = OCRError
  /\ Len(text_parts) = 2
  /\ calls.vision = 3
  /\ images > 3
  /\ response = HttpError(500)

====
